---------------------------- MODULE Spec2Model ----------------------------
(***************************************************************************)
(* safe_write (src/src/lib.rs): the atomic-replace protocol                *)
(*   create_dir_all(parent); temp = path.with_extension("tmp");            *)
(*   remove a stale temp; create_new(temp); write_all; flush; sync_all;    *)
(*   drop; [windows: remove an existing target]; rename(temp, path).       *)
(* Every `?` of the function is a return point: each filesystem call is    *)
(* one step that either succeeds or returns its error.  The filesystem is  *)
(* a set of directories and a table of directory entries; a file carries   *)
(* its visible bytes and whether they have reached the storage medium.     *)
(***************************************************************************)
EXTENDS Integers, Sequences, FiniteSets, TLC

\* ------------------------------------------------------------------ bounds
MaxLen == 2      \* longest payload, in bytes
MaxCalls == 2    \* calls of safe_write in one run

Bytes == {1, 2}

Writers == {1, 2}

\* ------------------------------------------------------------------- paths
\* A path is its parent directory (a sequence of segments) and its file name
\* (the dot-separated components of the last segment): a/b/foo.txt is
\* [dir |-> <<"a","b">>, name |-> <<"foo","txt">>].
MkPath(d, n) == [dir |-> d, name |-> n]

\* The paths of the model's filesystem: two targets that differ only in their
\* extension, one whose extension is tmp already, and one without extension
\* in a directory up the chain.
AllTargets ==
  { MkPath(<<"a", "b", "c">>, <<"foo", "txt">>),
    MkPath(<<"a", "b", "c">>, <<"foo", "dat">>),
    MkPath(<<"a", "b", "c">>, <<"foo", "tmp">>),
    MkPath(<<"a">>, <<"bar">>) }

\* The targets one writer's calls are made on.
Targets ==
  { MkPath(<<"a", "b", "c">>, <<"foo", "txt">>),
    MkPath(<<"a", "b", "c">>, <<"foo", "tmp">>) }

\* path.parent().unwrap_or_else(|| Path::new("."))
Parent(p) == p.dir

\* The extension appended to the whole file name: foo.txt gives foo.txt.tmp.
AppendExtension(p, ext) ==
  IF Len(p.name) = 0 THEN p ELSE MkPath(p.dir, p.name \o <<ext>>)

\* Path::with_extension: the final extension replaced, or appended when the
\* file name has none; a path with no file name is returned as it is.
WithExtension(p, ext) ==
  IF Len(p.name) = 0 THEN p
  ELSE IF Len(p.name) = 1 THEN MkPath(p.dir, p.name \o <<ext>>)
  ELSE MkPath(p.dir, SubSeq(p.name, 1, Len(p.name) - 1) \o <<ext>>)

\* let temp_path = path.with_extension("tmp");
TempPath(p) == WithExtension(p, "tmp")

FilePaths == AllTargets \cup { TempPath(p) : p \in AllTargets }

\* The directories of a parent chain: a, a/b, a/b/c for a/b/c.
Chain(d) == { SubSeq(d, 1, k) : k \in 1..Len(d) }

\* ------------------------------------------------------------------- files
Payloads == UNION { [1..n -> Bytes] : n \in 0..MaxLen }

\* A directory entry: the file it names, or nothing.  `synced` says the bytes
\* have reached the storage medium; `by` is the writer whose running (or
\* last) call created the file, 0 for a file of an earlier call; `open` says
\* that writer's handle is open on it.
NoFile == [exists |-> FALSE, data |-> <<>>, synced |-> FALSE, by |-> 0, open |-> FALSE]

\* What a reader of the path gets, and what a power loss keeps of it.
View(f) == [exists |-> f.exists, data |-> f.data, synced |-> f.synced]

Absent == View(NoFile)

Durable(c) == [exists |-> TRUE, data |-> c, synced |-> TRUE]

NoResult == [kind |-> "None", step |-> "", cause |-> ""]

NoCall == [path |-> MkPath(<<>>, <<>>), content |-> <<>>, old |-> Absent,
           oldTemp |-> Absent, oldDirs |-> {}]

VARIABLES
  platform,   \* "posix" or "windows": cfg(windows), fixed by the build
  dirs,       \* the directories that exist
  dirent,     \* FilePaths -> the file the entry names
  pc,         \* Writers -> the statement the writer's call is at
  call,       \* Writers -> the call's arguments and the state it found
  handle,     \* Writers -> whether temp_file is open
  written,    \* Writers -> bytes write_all has written so far
  result,     \* Writers -> what the last call returned
  log,        \* Writers -> the filesystem operations the call has made
  seen,       \* what a reader last read at the target during the call
  ncalls      \* calls started so far

vars == <<platform, dirs, dirent, pc, call, handle, written, result, log, seen, ncalls>>


\* ------------------------------------------------- the filesystem's calls
\* Each returns what the call returns (ok, and the io::ErrorKind when not) and
\* the directory entries after it.
Outcome(ok, cause, d) == [ok |-> ok, cause |-> cause, dirent |-> d]

\* The check left out: the path is taken not to exist.
ExistsNever(d, p) == FALSE

\* Path::exists
Exists(d, p) == d[p].exists

\* fs::create_dir in its place: one directory, whose parent must exist and
\* which must not.
CreateDir(ds, parent) ==
  IF parent = <<>> \/ parent \in ds
    THEN [ok |-> FALSE, cause |-> "AlreadyExists", dirs |-> ds]
  ELSE IF ~(Chain(parent) \ {parent} \subseteq ds)
    THEN [ok |-> FALSE, cause |-> "NotFound", dirs |-> ds]
  ELSE [ok |-> TRUE, cause |-> "", dirs |-> ds \cup {parent}]

\* create_dir_all that makes a scratch directory tmp at the top as well.
CreateDirAllAndScratch(ds, parent) ==
  [ok |-> TRUE, cause |-> "", dirs |-> ds \cup Chain(parent) \cup {<<"tmp">>}]

\* fs::create_dir_all: every missing directory of the chain is created; a
\* directory that exists is no error.
CreateDirAll(ds, parent) == [ok |-> TRUE, cause |-> "", dirs |-> ds \cup Chain(parent)]

\* fs::remove_file: the entry is unlinked; a handle open on the file stays
\* open on a file no path names.
RemoveFile(d, p) ==
  IF d[p].exists
    THEN Outcome(TRUE, "", [d EXCEPT ![p] = NoFile])
    ELSE Outcome(FALSE, "NotFound", d)

\* create(true).truncate(true) in place of create_new(true): a file at the
\* path is opened and emptied.
CreateTruncate(ds, d, p, w) ==
  IF ~(Chain(Parent(p)) \subseteq ds) THEN Outcome(FALSE, "NotFound", d)
  ELSE Outcome(TRUE, "",
         [d EXCEPT ![p] = [exists |-> TRUE, data |-> <<>>, synced |-> FALSE,
                           by |-> w, open |-> TRUE]])

\* OpenOptions::new().write(true).create_new(true).open: an empty file,
\* created only when nothing is at the path.
CreateNew(ds, d, p, w) ==
  IF ~(Chain(Parent(p)) \subseteq ds) THEN Outcome(FALSE, "NotFound", d)
  ELSE IF d[p].exists THEN Outcome(FALSE, "AlreadyExists", d)
  ELSE Outcome(TRUE, "",
         [d EXCEPT ![p] = [exists |-> TRUE, data |-> <<>>, synced |-> FALSE,
                           by |-> w, open |-> TRUE]])

\* The entries that name the file writer w's handle is open on (none once
\* the file has been unlinked or replaced).
HandleEntries(d, w) == { e \in FilePaths : d[e].exists /\ d[e].by = w /\ d[e].open }

\* write in place of write_all: what the first write did not take is lost.
WriteOnce(d, w, b) ==
  [e \in FilePaths |->
     IF e \in HandleEntries(d, w) /\ d[e].data = <<>>
       THEN [d[e] EXCEPT !.data = @ \o <<b>>, !.synced = FALSE]
       ELSE d[e]]

\* One write of write_all: the next byte reaches the file, not yet the medium.
WriteByte(d, w, b) ==
  [e \in FilePaths |->
     IF e \in HandleEntries(d, w)
       THEN [d[e] EXCEPT !.data = @ \o <<b>>, !.synced = FALSE]
       ELSE d[e]]

\* File::sync_all: the file's bytes reach the storage medium.
SyncAll(d, w) ==
  [e \in FilePaths |->
     IF e \in HandleEntries(d, w) THEN [d[e] EXCEPT !.synced = TRUE] ELSE d[e]]

\* drop(temp_file), also the drop of every early return.
Drop(d, w) ==
  [e \in FilePaths |->
     IF e \in HandleEntries(d, w) THEN [d[e] EXCEPT !.open = FALSE] ELSE d[e]]

\* fs::rename: the entry `to` names the file of `from`, replacing what it
\* named, in one step; renaming a path onto itself changes nothing.
Rename(d, from, to) ==
  IF ~d[from].exists THEN Outcome(FALSE, "NotFound", d)
  ELSE IF from = to THEN Outcome(TRUE, "", d)
  ELSE Outcome(TRUE, "", [d EXCEPT ![to] = d[from], ![from] = NoFile])

\* ---------------------------------------------------------- control flow
Entry(op, ok) == [op |-> op, ok |-> ok]

\* A return that leaves temp_file open (as mem::forget would).
ReturnLeaking(w, res, d) ==
  /\ pc' = [pc EXCEPT ![w] = "idle"]
  /\ result' = [result EXCEPT ![w] = res]
  /\ written' = [written EXCEPT ![w] = 0]
  /\ dirent' = d
  /\ UNCHANGED <<handle, seen>>

\* A call returns: temp_file (if open) is dropped, the result is the caller's.
Return(w, res, d) ==
  /\ pc' = [pc EXCEPT ![w] = "idle"]
  /\ result' = [result EXCEPT ![w] = res]
  /\ handle' = [handle EXCEPT ![w] = FALSE]
  /\ written' = [written EXCEPT ![w] = 0]
  /\ dirent' = Drop(d, w)
  /\ UNCHANGED seen

\* The failed call is made again instead of its error being returned.
FailRetry(w, op, cause, d) ==
  /\ log' = [log EXCEPT ![w] = Append(@, Entry(op, FALSE))]
  /\ dirent' = d
  /\ UNCHANGED <<pc, result, handle, written, seen>>

\* The `?` of a failed call: the error is returned at once.
Fail(w, op, cause, d) ==
  /\ log' = [log EXCEPT ![w] = Append(@, Entry(op, FALSE))]
  /\ Return(w, [kind |-> "Err", step |-> op, cause |-> cause], d)

\* The call went well: on to the next statement.
Advance(w, op, next, d) ==
  /\ log' = [log EXCEPT ![w] = Append(@, Entry(op, TRUE))]
  /\ pc' = [pc EXCEPT ![w] = next]
  /\ dirent' = d
  /\ UNCHANGED <<result, seen>>

\* ------------------------------------------------------------------ state
Init ==
  /\ platform \in {"posix", "windows"}
  /\ dirs = {}
  /\ dirent = [e \in FilePaths |-> NoFile]
  /\ pc = [w \in Writers |-> "idle"]
  /\ call = [w \in Writers |-> NoCall]
  /\ handle = [w \in Writers |-> FALSE]
  /\ written = [w \in Writers |-> 0]
  /\ result = [w \in Writers |-> NoResult]
  /\ log = [w \in Writers |-> <<>>]
  /\ seen = Absent
  /\ ncalls = 0

\* ---------------------------------------------------------------- actions
\* safe_write(path, content) is called (lines 43-46).  Files of the writer's
\* earlier call stop counting as new.
Begin(w, p, c) ==
  /\ pc[w] = "idle"
  /\ ncalls < MaxCalls
  /\ ncalls' = ncalls + 1
  /\ pc' = [pc EXCEPT ![w] = "mkdir"]
  /\ call' = [call EXCEPT ![w] = [path |-> p, content |-> c,
                                  old |-> View(dirent[p]),
                                  oldTemp |-> View(dirent[TempPath(p)]),
                                  oldDirs |-> dirs]]
  /\ dirent' = [e \in FilePaths |->
                  IF dirent[e].by = w THEN [dirent[e] EXCEPT !.by = 0] ELSE dirent[e]]
  /\ result' = [result EXCEPT ![w] = NoResult]
  /\ log' = [log EXCEPT ![w] = <<>>]
  /\ seen' = Absent
  /\ UNCHANGED <<platform, dirs, handle, written>>

\* fs::create_dir_all(parent)?
Mkdir(w) ==
  /\ pc[w] = "mkdir"
  /\ LET r == CreateDirAll(dirs, Parent(call[w].path)) IN
       IF r.ok
         THEN /\ dirs' = r.dirs
              /\ Advance(w, "mkdir", "check", dirent)
              /\ UNCHANGED <<handle, written>>
         ELSE /\ dirs' = dirs
              /\ Fail(w, "mkdir", r.cause, dirent)
  /\ UNCHANGED <<platform, call, ncalls>>

\* create_dir_all fails (permissions, I/O) after creating some of the missing
\* directories, top down.
MkdirErr(w) ==
  /\ pc[w] = "mkdir"
  /\ \E made \in SUBSET (Chain(Parent(call[w].path)) \ dirs) :
       /\ made # Chain(Parent(call[w].path)) \ dirs \/ made = {}
       /\ \A x \in made : Chain(x) \subseteq dirs \cup made
       /\ dirs' = dirs \cup made
  /\ Fail(w, "mkdir", "Io", dirent)
  /\ UNCHANGED <<platform, call, ncalls>>

\* if temp_path.exists()
CheckTemp(w) ==
  /\ pc[w] = "check"
  /\ Advance(w, "exists",
             IF Exists(dirent, TempPath(call[w].path)) THEN "remove" ELSE "create",
             dirent)
  /\ UNCHANGED <<platform, dirs, call, handle, written, ncalls>>

\* fs::remove_file(&temp_path)?
RemoveTemp(w) ==
  /\ pc[w] = "remove"
  /\ LET r == RemoveFile(dirent, TempPath(call[w].path)) IN
       IF r.ok
         THEN Advance(w, "remove", "create", r.dirent) /\ UNCHANGED <<handle, written>>
         ELSE Fail(w, "remove", r.cause, r.dirent)
  /\ UNCHANGED <<platform, dirs, call, ncalls>>

RemoveTempErr(w) ==
  /\ pc[w] = "remove"
  /\ Fail(w, "remove", "Io", dirent)
  /\ UNCHANGED <<platform, dirs, call, ncalls>>

\* OpenOptions::new().write(true).create_new(true).open(&temp_path)?
CreateTemp(w) ==
  /\ pc[w] = "create"
  /\ LET r == CreateNew(dirs, dirent, TempPath(call[w].path), w) IN
       IF r.ok
         THEN /\ Advance(w, "create", "write", r.dirent)
              /\ handle' = [handle EXCEPT ![w] = TRUE]
              /\ UNCHANGED written
         ELSE Fail(w, "create", r.cause, r.dirent)
  /\ UNCHANGED <<platform, dirs, call, ncalls>>

CreateTempErr(w) ==
  /\ pc[w] = "create"
  /\ Fail(w, "create", "Io", dirent)
  /\ UNCHANGED <<platform, dirs, call, ncalls>>


\* temp_file.write_all(content)?: one write of the loop.
WriteStep(w) ==
  /\ pc[w] = "write"
  /\ written[w] < Len(call[w].content)
  /\ dirent' = WriteByte(dirent, w, call[w].content[written[w] + 1])
  /\ written' = [written EXCEPT ![w] = @ + 1]
  /\ UNCHANGED <<platform, dirs, pc, call, handle, result, log, seen, ncalls>>

\* write_all has written every byte (at once for an empty payload).
WriteDone(w) ==
  /\ pc[w] = "write"
  /\ written[w] = Len(call[w].content)
  /\ Advance(w, "write", "flush", dirent)
  /\ UNCHANGED <<platform, dirs, call, handle, written, ncalls>>

\* A write of the loop fails (disk full, I/O): the bytes written so far stay.
WriteErr(w) ==
  /\ pc[w] = "write"
  /\ written[w] < Len(call[w].content)
  /\ Fail(w, "write", "Io", dirent)
  /\ UNCHANGED <<platform, dirs, call, ncalls>>

\* temp_file.flush()?
Flush(w) ==
  /\ pc[w] = "flush"
  /\ Advance(w, "flush", "sync", dirent)
  /\ UNCHANGED <<platform, dirs, call, handle, written, ncalls>>

FlushErr(w) ==
  /\ pc[w] = "flush"
  /\ Fail(w, "flush", "Io", dirent)
  /\ UNCHANGED <<platform, dirs, call, ncalls>>

\* temp_file.sync_all()?
Sync(w) ==
  /\ pc[w] = "sync"
  /\ Advance(w, "sync", "close", SyncAll(dirent, w))
  /\ UNCHANGED <<platform, dirs, call, handle, written, ncalls>>

SyncErr(w) ==
  /\ pc[w] = "sync"
  /\ Fail(w, "sync", "Io", dirent)
  /\ UNCHANGED <<platform, dirs, call, ncalls>>

\* What follows the drop: #[cfg(windows)] compiles the target's removal in.
AfterClose(pf) == IF pf = "windows" THEN "wcheck" ELSE "rename"

\* drop(temp_file)
Close(w) ==
  /\ pc[w] = "close"
  /\ Advance(w, "close", AfterClose(platform), Drop(dirent, w))
  /\ handle' = [handle EXCEPT ![w] = FALSE]
  /\ UNCHANGED <<platform, dirs, call, written, ncalls>>

\* #[cfg(windows)] if path.exists()
CheckTarget(w) ==
  /\ pc[w] = "wcheck"
  /\ Advance(w, "exists",
             IF Exists(dirent, call[w].path) THEN "wremove" ELSE "rename",
             dirent)
  /\ UNCHANGED <<platform, dirs, call, handle, written, ncalls>>

\* #[cfg(windows)] fs::remove_file(path)?
RemoveTarget(w) ==
  /\ pc[w] = "wremove"
  /\ LET r == RemoveFile(dirent, call[w].path) IN
       IF r.ok
         THEN Advance(w, "wremove", "rename", r.dirent) /\ UNCHANGED <<handle, written>>
         ELSE Fail(w, "wremove", r.cause, r.dirent)
  /\ UNCHANGED <<platform, dirs, call, ncalls>>

RemoveTargetErr(w) ==
  /\ pc[w] = "wremove"
  /\ Fail(w, "wremove", "Io", dirent)
  /\ UNCHANGED <<platform, dirs, call, ncalls>>

\* fs::rename(&temp_path, path)?; Ok(())
RenameTemp(w) ==
  /\ pc[w] = "rename"
  /\ LET r == Rename(dirent, TempPath(call[w].path), call[w].path) IN
       IF r.ok
         THEN /\ log' = [log EXCEPT ![w] = Append(@, Entry("rename", TRUE))]
              /\ Return(w, [kind |-> "Ok", step |-> "", cause |-> ""], r.dirent)
         ELSE Fail(w, "rename", r.cause, r.dirent)
  /\ UNCHANGED <<platform, dirs, call, ncalls>>

RenameErr(w) ==
  /\ pc[w] = "rename"
  /\ Fail(w, "rename", "Io", dirent)
  /\ UNCHANGED <<platform, dirs, call, ncalls>>

\* The process dies (or the power goes) between two steps: nothing more is
\* done, and the system closes the handle.
Crash(w) ==
  /\ pc[w] # "idle"
  /\ Return(w, [kind |-> "Crashed", step |-> pc[w], cause |-> ""], dirent)
  /\ UNCHANGED <<platform, dirs, call, log, ncalls>>

\* Another process reads the target of writer w's running call.
Read(w) ==
  /\ pc[w] # "idle"
  /\ seen' = View(dirent[call[w].path])
  /\ UNCHANGED <<platform, dirs, dirent, pc, call, handle, written, result, log, ncalls>>

\* The call's next statement, whatever its outcome.
Proceed(w) ==
  \/ Mkdir(w) \/ MkdirErr(w)
  \/ CheckTemp(w)
  \/ RemoveTemp(w) \/ RemoveTempErr(w)
  \/ CreateTemp(w) \/ CreateTempErr(w)
  \/ WriteStep(w) \/ WriteDone(w) \/ WriteErr(w)
  \/ Flush(w) \/ FlushErr(w)
  \/ Sync(w) \/ SyncErr(w)
  \/ Close(w)
  \/ CheckTarget(w)
  \/ RemoveTarget(w) \/ RemoveTargetErr(w)
  \/ RenameTemp(w) \/ RenameErr(w)

Step(w) ==
  \/ \E p \in Targets, c \in Payloads : Begin(w, p, c)
  \/ Proceed(w)
  \/ Crash(w)

\* One writer, one call at a time.
Next == Step(1)

Spec == Init /\ [][Next]_vars

\* The same, with a reader polling the target.
NextRead == Step(1) \/ Read(1)

SpecRead == Init /\ [][NextRead]_vars

\* Two payloads that tell two calls' files apart, one with a proper prefix.
FewPayloads == {<<1>>, <<2, 1>>}

\* Two writers whose calls on one target interleave step by step: nothing in
\* safe_write keeps them apart.
SharedTarget == MkPath(<<"a", "b", "c">>, <<"foo", "txt">>)

NextConc ==
  \E w \in Writers :
    \/ \E c \in FewPayloads : Begin(w, SharedTarget, c)
    \/ Proceed(w)
    \/ Crash(w)

SpecConc == Init /\ [][NextConc]_vars

\* One writer whose calls go to every path of the model.
NextPaths ==
  \/ \E p \in AllTargets, c \in FewPayloads : Begin(1, p, c)
  \/ Proceed(1)
  \/ Crash(1)

SpecPaths == Init /\ [][NextPaths]_vars

\* A call runs on its caller's thread: while the process lives, a call that
\* has a next statement gets to make it.
NextFair ==
  \/ \E p \in Targets, c \in FewPayloads : Begin(1, p, c)
  \/ Proceed(1)
  \/ Crash(1)

SpecFair == Init /\ [][NextFair]_vars /\ WF_vars(Proceed(1))


\* ------------------------------------------------------- reading a state
Started(w) == call[w] # NoCall

TargetOf(w) == dirent[call[w].path]

TempOf(w) == dirent[TempPath(call[w].path)]

\* The complete new payload, on the storage medium.
NewOf(w) == Durable(call[w].content)

\* The derived temp name is the target's own name.
Aliased(p) == TempPath(p) = p

\* The call has made operation op, and it went well.
Did(w, op) == \E i \in 1..Len(log[w]) : log[w][i] = Entry(op, TRUE)

\* What a read returns: the file's bytes, or that there is no file.
Bytes_(v) == [exists |-> v.exists, data |-> v.data]

\* --------------------------------------------------------------- claims

\* C1: on the POSIX branch, with one writer, the target holds at every moment
\* of a call (and after it, however it ended) either exactly what it held
\* before the call or the complete new payload on the medium.
AtomicReplacePosix ==
  platform = "posix" =>
    \A w \in Writers :
      Started(w) => Bytes_(TargetOf(w)) \in {Bytes_(call[w].old), Bytes_(NewOf(w))}

\* For the targets whose temp name is another entry: the same, and what the
\* target holds is on the medium.
AtomicReplacePosixDistinctTemp ==
  platform = "posix" =>
    \A w \in Writers :
      Started(w) /\ ~Aliased(call[w].path) =>
        View(TargetOf(w)) \in {call[w].old, NewOf(w)}

\* C2: a call on a fresh target that returns Ok leaves exactly the payload
\* readable at the target.
RoundTrip ==
  \A w \in Writers :
    result[w].kind = "Ok" /\ ~call[w].old.exists =>
      View(TargetOf(w)) = NewOf(w)

RoundTripWitness ==
  /\ result[1].kind = "Ok"
  /\ ~call[1].old.exists
  /\ Len(call[1].content) = 2
  /\ TargetOf(1).data = call[1].content

\* C3: a call that returns the error of one of steps 1-8 (directory creation,
\* stale-temp removal, exclusive create, write, flush, sync) leaves the target
\* as it was before the call, for every target path.
EarlySteps == {"mkdir", "remove", "create", "write", "flush", "sync", "close"}

EarlyErrorLeavesTarget ==
  \A w \in Writers :
    result[w].kind = "Err" /\ result[w].step \in EarlySteps =>
      Bytes_(TargetOf(w)) = Bytes_(call[w].old)

EarlyErrorLeavesTargetDistinctTemp ==
  \A w \in Writers :
    result[w].kind = "Err" /\ result[w].step \in EarlySteps
      /\ ~Aliased(call[w].path) =>
        View(TargetOf(w)) = call[w].old

\* C4: the commit (the Windows removal of the target, the rename) comes only
\* after the whole payload is written, flush and sync_all have succeeded and
\* the handle is released; so whenever the target names the file this call
\* created, the complete payload is on the medium.
CommitOrder ==
  \A w \in Writers :
    pc[w] \in {"wcheck", "wremove", "rename"} \/ Did(w, "wremove") \/ Did(w, "rename") =>
      /\ Did(w, "write") /\ Did(w, "flush") /\ Did(w, "sync") /\ Did(w, "close")
      /\ ~handle[w]

NewTargetIsComplete ==
  \A w \in Writers :
    Started(w) /\ TargetOf(w).exists /\ TargetOf(w).by = w =>
      TargetOf(w).data = call[w].content

CommitAfterBarrier == CommitOrder /\ NewTargetIsComplete

\* For the targets whose temp name is another entry, the new file at the
\* target is complete and on the medium.
NewTargetIsDurableDistinctTemp ==
  \A w \in Writers :
    Started(w) /\ TargetOf(w).exists /\ TargetOf(w).by = w
      /\ ~Aliased(call[w].path) =>
        View(TargetOf(w)) = NewOf(w)

\* C5: on the Windows branch the target is, at every moment, its complete
\* old contents, absent, or the complete new payload; and from the removal
\* of the target until the rename has succeeded the target is absent and the
\* temp file holds the complete new payload.
BetweenRemovalAndRename(w) == Did(w, "wremove") /\ ~Did(w, "rename")

WindowsWindow ==
  platform = "windows" =>
    \A w \in Writers :
      Started(w) =>
        /\ Bytes_(TargetOf(w)) \in {Bytes_(call[w].old), Bytes_(Absent), Bytes_(NewOf(w))}
        /\ BetweenRemovalAndRename(w) =>
             /\ ~TargetOf(w).exists
             /\ Bytes_(TempOf(w)) = Bytes_(NewOf(w))

WindowsWindowDistinctTemp ==
  platform = "windows" =>
    \A w \in Writers :
      Started(w) /\ ~Aliased(call[w].path) =>
        /\ View(TargetOf(w)) \in {call[w].old, Absent, NewOf(w)}
        /\ BetweenRemovalAndRename(w) =>
             /\ ~TargetOf(w).exists
             /\ View(TempOf(w)) = NewOf(w)

\* C6: what a reader read at the target during a call that succeeded is the
\* complete old contents, no file, or the complete new payload.
NoPartialRead ==
  \A w \in Writers :
    result[w].kind = "Ok" =>
      Bytes_(seen) \in {Bytes_(call[w].old), Bytes_(Absent), Bytes_(NewOf(w))}

NoPartialReadDistinctTemp ==
  \A w \in Writers :
    result[w].kind = "Ok" /\ ~Aliased(call[w].path) =>
      Bytes_(seen) \in {Bytes_(call[w].old), Bytes_(Absent), Bytes_(NewOf(w))}

\* C7: after a successful call (the last of any sequence on the path) the
\* target holds exactly that call's payload and nothing is at the derived
\* temp name.
OverwriteLeavesOnlyNew ==
  \A w \in Writers :
    result[w].kind = "Ok" =>
      /\ View(TargetOf(w)) = NewOf(w)
      /\ ~TempOf(w).exists

OverwriteLeavesOnlyNewDistinctTemp ==
  \A w \in Writers :
    result[w].kind = "Ok" /\ ~Aliased(call[w].path) =>
      /\ View(TargetOf(w)) = NewOf(w)
      /\ ~TempOf(w).exists

\* C8: a call that finds a file at the derived temp name removes it and, no
\* operation of it being failed by the system, succeeds; when it succeeds
\* the target holds exactly the new payload.
StaleTempRecovery ==
  \A w \in Writers :
    Started(w) /\ call[w].oldTemp.exists =>
      /\ pc[w] \notin {"idle", "mkdir", "check", "remove"} => Did(w, "remove")
      /\ result[w].kind = "Err" => result[w].cause = "Io"
      /\ result[w].kind = "Ok" => View(TargetOf(w)) = NewOf(w)

StaleTempRecoveryDistinctTemp ==
  \A w \in Writers :
    Started(w) /\ call[w].oldTemp.exists /\ ~Aliased(call[w].path) =>
      /\ pc[w] \notin {"idle", "mkdir", "check", "remove"} => Did(w, "remove")
      /\ result[w].kind = "Err" => result[w].cause = "Io"
      /\ result[w].kind = "Ok" => View(TargetOf(w)) = NewOf(w) /\ ~TempOf(w).exists

\* C9: the directory step fails only when the system fails it, whatever part
\* of the parent chain exists, and once it has succeeded every directory of
\* the chain exists.
ParentChainCreated ==
  \A w \in Writers :
    /\ result[w].kind = "Err" /\ result[w].step = "mkdir" => result[w].cause = "Io"
    /\ pc[w] = "mkdir" => CreateDirAll(dirs, Parent(call[w].path)).ok
    /\ Did(w, "mkdir") => Chain(Parent(call[w].path)) \subseteq dirs

ParentChainCreatedWitness ==
  /\ call[1].oldDirs = {}
  /\ Did(1, "mkdir")
  /\ {<<"a">>, <<"a", "b">>, <<"a", "b", "c">>} \subseteq dirs
  /\ result[1].kind = "Ok"

\* C10: the first operation that fails is the call's last: its error is the
\* result, nothing follows it, and what the call had done stays done.  A
\* failed directory step is the call's only operation and leaves the temp
\* name as it was.
FailStopsCall ==
  \A w \in Writers :
    /\ \A i \in 1..Len(log[w]) :
         ~log[w][i].ok =>
           /\ i = Len(log[w])
           /\ pc[w] = "idle"
           /\ result[w] = [kind |-> "Err", step |-> log[w][i].op, cause |-> result[w].cause]
    /\ result[w].kind = "Err" =>
         /\ log[w] # <<>>
         /\ log[w][Len(log[w])] = Entry(result[w].step, FALSE)
         /\ call[w].oldDirs \subseteq dirs
    /\ result[w].kind = "Err" /\ result[w].step = "mkdir" =>
         /\ Len(log[w]) = 1
         /\ View(TempOf(w)) = call[w].oldTemp
    /\ result[w].kind = "Err" /\ result[w].step \in {"write", "flush", "sync"} =>
         TempOf(w).exists /\ TempOf(w).by = w

FailStopsCallWitness ==
  /\ result[1] = [kind |-> "Err", step |-> "mkdir", cause |-> "Io"]
  /\ call[1].oldTemp.exists
  /\ log[1] = <<Entry("mkdir", FALSE)>>


\* C11: two calls on one target are not kept apart.  A call's exclusive
\* create fails on an existing entry, and a call's open temp file is removed
\* or replaced under it, only when another writer is at work; both happen.
OtherAtWork(w) == \E v \in Writers \ {w} : Started(v)

\* Writer w's handle is open on a file its temp name no longer names.
TempLost(w) ==
  handle[w] /\ HandleEntries(dirent, w) # {TempPath(call[w].path)}

RacesNeedTwoWriters ==
  \A w \in Writers :
    /\ result[w] = [kind |-> "Err", step |-> "create", cause |-> "AlreadyExists"]
         => OtherAtWork(w)
    /\ TempLost(w) => OtherAtWork(w)

\* One call is still writing a temp file that the other has removed, having
\* put its own in its place.
TempClobberedWhileWriting ==
  \E w \in Writers, v \in Writers :
    /\ w # v
    /\ pc[w] = "write" /\ handle[w] /\ HandleEntries(dirent, w) = {}
    /\ Did(v, "remove") /\ Did(v, "create")
    /\ TempOf(w).exists /\ TempOf(w).by = v

\* C12: the create is exclusive.  When an entry is at the temp name at the
\* moment of the create, the call returns the error of that step, has no open
\* file, has written nothing, and no directory entry (the temp entry, the
\* target) has changed.
ExclusiveCreate ==
  [][\A w \in Writers :
       /\ pc[w] = "create" /\ pc'[w] # "create"
       /\ TempOf(w).exists
       /\ result'[w].kind # "Crashed"
       => /\ pc'[w] = "idle"
          /\ result'[w].kind = "Err" /\ result'[w].step = "create"
          /\ result'[w].cause \in {"AlreadyExists", "Io"}
          /\ ~handle'[w]
          /\ dirent' = dirent
          /\ \A i \in 1..Len(log'[w]) : log'[w][i].op # "write"]_vars

\* The other writer created its temp file between this call's check and its
\* create.
CreateCollision ==
  \E w \in Writers, v \in Writers :
    /\ w # v
    /\ result[w] = [kind |-> "Err", step |-> "create", cause |-> "AlreadyExists"]
    /\ ~call[w].oldTemp.exists /\ ~Did(w, "remove")
    /\ TempOf(w).exists /\ TempOf(w).by = v /\ TempOf(w).open
    /\ pc[v] = "write" /\ written[v] = 1
    /\ TempOf(w).data = <<2>>


\* C13: the temp name is a function of the target path alone: the same
\* parent, the final extension replaced by tmp, or tmp appended to a name
\* without extension.  foo.txt and foo.dat both give foo.tmp, a/bar gives
\* a/bar.tmp, and the file a call creates sits at that name until the rename
\* moves it to the target.
Stem(p) == IF Len(p.name) = 1 THEN p.name ELSE SubSeq(p.name, 1, Len(p.name) - 1)

TempStepsSpareTarget ==
  \A w \in Writers :
    pc[w] \in {"create", "write", "flush", "sync", "close"} =>
      /\ Bytes_(TargetOf(w)) = Bytes_(call[w].old)
      /\ call[w].path \notin HandleEntries(dirent, w)

\* The same for the targets whose temp name is another entry.
TempStepsSpareTargetDistinctTemp ==
  \A w \in Writers :
    pc[w] \in {"create", "write", "flush", "sync", "close"}
      /\ ~Aliased(call[w].path) =>
      /\ View(TargetOf(w)) = call[w].old
      /\ call[w].path \notin HandleEntries(dirent, w)


\* C15: the temp file's handle is open from the exclusive create to the
\* release, and at no other point of a call; a call that has returned, with
\* Ok or with any error, owns no open handle.
HandleScope == {"write", "flush", "sync", "close"}

HandleHeldOnlyInScope ==
  \A w \in Writers :
    /\ handle[w] <=> pc[w] \in HandleScope
    /\ handle[w] => Did(w, "create") /\ ~Did(w, "close")
    /\ ~handle[w] => HandleEntries(dirent, w) = {}
    /\ pc[w] = "idle" =>
         /\ ~handle[w]
         /\ \A e \in FilePaths : dirent[e].by = w => ~dirent[e].open

\* write_all, flush or sync_all failed: the call has returned its error, and
\* the temp file it created is left behind, closed.
HandleClosedAfterError ==
  /\ pc[1] = "idle"
  /\ result[1].kind = "Err" /\ result[1].step \in {"write", "flush", "sync"}
  /\ ~Aliased(call[1].path)
  /\ TempOf(1).exists /\ TempOf(1).by = 1 /\ ~TempOf(1).open
  /\ ~handle[1]


\* C16: a call changes nothing but the directories of its target's parent
\* chain, which it only adds, the entry at its temp name and the entry at
\* its target; every other file keeps its bytes and its durability at every
\* step, whether the call succeeds or fails.  A call starts from nothing of
\* the call before it: no open file, no byte written, no step made, no result.
Running == { w \in Writers : pc[w] # "idle" }

FrameOfCall ==
  [][/\ \A e \in FilePaths :
          View(dirent'[e]) # View(dirent[e]) =>
            \E w \in Running : e \in {call[w].path, TempPath(call[w].path)}
     /\ dirs \subseteq dirs'
     /\ dirs' # dirs =>
          \E w \in Running : dirs' \ dirs \subseteq Chain(Parent(call[w].path))
     /\ platform' = platform
     /\ \A w \in Writers :
          pc[w] = "idle" /\ pc'[w] # "idle" =>
            /\ ~handle'[w] /\ written'[w] = 0
            /\ log'[w] = <<>> /\ result'[w] = NoResult
            /\ HandleEntries(dirent', w) = {}]_vars

\* A call on foo.txt has returned Ok, and the file an earlier call wrote at
\* foo.dat in the same directory is as that call left it.
NeighbourUntouched ==
  /\ pc[1] = "idle" /\ result[1].kind = "Ok"
  /\ call[1].path = MkPath(<<"a", "b", "c">>, <<"foo", "txt">>)
  /\ View(dirent[MkPath(<<"a", "b", "c">>, <<"foo", "dat">>)]) = Durable(<<2, 1>>)
  /\ View(TargetOf(1)) = Durable(<<1>>)
  /\ ~TempOf(1).exists
  /\ dirs = Chain(<<"a", "b", "c">>)


\* C17: a call makes each of its steps at most once, in the order of the
\* source, and returns: Ok after a successful rename and nothing else, or the
\* error of the first step that fails.  Every step of a running call brings
\* it nearer the return, a running call always has a step to make, and a
\* call that is let run returns.
ProtocolOrder(pf) ==
  IF pf = "windows"
    THEN <<"mkdir", "exists", "remove", "create", "write", "flush", "sync",
           "close", "exists", "wremove", "rename">>
    ELSE <<"mkdir", "exists", "remove", "create", "write", "flush", "sync",
           "close", "rename">>

\* The statements still ahead of a call at pc, the longest way.
StepsLeft(at) ==
  CASE at = "idle" -> 0
    [] at = "rename" -> 1
    [] at = "wremove" -> 2
    [] at = "wcheck" -> 3
    [] at = "close" -> 4
    [] at = "sync" -> 5
    [] at = "flush" -> 6
    [] at = "write" -> 7
    [] at = "create" -> 8
    [] at = "remove" -> 9
    [] at = "check" -> 10
    [] at = "mkdir" -> 11

LogOps(w) == [i \in 1..Len(log[w]) |-> log[w][i].op]

RECURSIVE IsSubseq(_, _)
IsSubseq(s, t) ==
  IF s = <<>> THEN TRUE
  ELSE IF t = <<>> THEN FALSE
  ELSE IF Head(s) = Head(t) THEN IsSubseq(Tail(s), Tail(t))
  ELSE IsSubseq(s, Tail(t))

\* What is left of the call: its statements, and the bytes of its write loop.
Variant(w) ==
  StepsLeft(pc[w]) * (MaxLen + 1)
    + (IF pc[w] = "write" THEN Len(call[w].content) - written[w] ELSE 0)

StepsInOrder ==
  \A w \in Writers :
    /\ IsSubseq(LogOps(w), ProtocolOrder(platform))
    /\ \A i \in 1..(Len(log[w]) - 1) : log[w][i].ok
    /\ Started(w) => written[w] <= Len(call[w].content)
    /\ pc[w] # "idle" =>
         /\ result[w] = NoResult
         /\ \A i \in 1..Len(log[w]) : log[w][i].ok
         /\ ENABLED Proceed(w)
    /\ pc[w] = "idle" /\ Started(w) => result[w].kind \in {"Ok", "Err", "Crashed"}
    /\ result[w].kind = "Ok" =>
         /\ log[w] # <<>> /\ log[w][Len(log[w])] = Entry("rename", TRUE)
         /\ Did(w, "mkdir") /\ Did(w, "create") /\ Did(w, "write")
         /\ Did(w, "flush") /\ Did(w, "sync") /\ Did(w, "close")
    /\ result[w].kind = "Err" =>
         log[w] # <<>> /\ log[w][Len(log[w])] = Entry(result[w].step, FALSE)

CallTerminates ==
  /\ []StepsInOrder
  /\ [][\A w \in Writers :
          pc[w] # "idle" /\ <<pc[w], written[w], log[w]>>' # <<pc[w], written[w], log[w]>>
            => Variant(w)' < Variant(w)]_vars
  /\ \A w \in Writers : (pc[w] # "idle") ~> (pc[w] = "idle")

\* A call that found a stale temp file made every step of the POSIX order,
\* its two writes included, and returned Ok.
EveryStepOnce ==
  /\ platform = "posix"
  /\ result[1].kind = "Ok"
  /\ call[1].content = <<2, 1>>
  /\ LogOps(1) = ProtocolOrder("posix")


\* C18: on POSIX, however two calls on one target interleave, the target
\* never holds part of a payload, and it holds the whole payload of one of
\* the calls whenever a call has returned Ok.
NoPartialTargetUnderRace ==
  platform = "posix" =>
    /\ dirent[SharedTarget].exists => dirent[SharedTarget].data \in FewPayloads
    /\ \A w \in Writers :
         result[w].kind = "Ok" =>
           /\ dirent[SharedTarget].exists
           /\ dirent[SharedTarget].data \in FewPayloads

IsPrefix(s, t) == Len(s) <= Len(t) /\ SubSeq(t, 1, Len(s)) = s

\* What does hold on POSIX under every interleaving: the target names a file
\* only after a rename; a file made by a running (or a writer's last) call
\* holds a prefix of that call's payload, and all of it, durable, once that
\* call's sync_all has succeeded; so a call that returned Ok and whose own
\* file the target names left its whole payload, durable.
TargetHoldsPrefixUnderRace ==
  platform = "posix" =>
    LET f == dirent[SharedTarget] IN
      /\ f.exists => \E w \in Writers : Did(w, "rename") \/ call[w].old.exists
      /\ \A v \in Writers :
           f.exists /\ f.by = v =>
             /\ IsPrefix(f.data, call[v].content)
             /\ Did(v, "sync") => View(f) = NewOf(v)
             /\ result[v].kind = "Ok" => View(f) = NewOf(v)

\* One call has returned Ok, and the target names the other call's temp
\* file, which that call has not finished writing.
RenamedOthersPartialTemp ==
  \E w \in Writers, v \in Writers :
    /\ w # v
    /\ platform = "posix"
    /\ result[w].kind = "Ok"
    /\ dirent[SharedTarget].exists /\ dirent[SharedTarget].by = v
    /\ pc[v] = "write" /\ call[v].content = <<2, 1>>
    /\ dirent[SharedTarget].data = <<2>>

=============================================================================
